---- MODULE Spec2Model ----
(***************************************************************************)
(* Model of beamium's router (src/src/router.rs): the router loop, the     *)
(* routing cycle `route` with its I/O steps and their failures, and the    *)
(* two collaborators that share the staging directories with it (the       *)
(* source writer and the sink reader).                                     *)
(*                                                                         *)
(* Text is modelled at the character level: a string is a sequence of      *)
(* one-character strings.  The only whitespace character of the model is   *)
(* the blank, the only line terminator is "\n".                            *)
(***************************************************************************)
EXTENDS Integers, Sequences, FiniteSets, TLC

VARIABLES
    \* configuration, fixed after start-up
    labels,        \* the flattened GlobalLabels string of router()
    parameters,    \* [batch_count, batch_size]
    \* the file system and the clock
    sourceDir,     \* source_dir: the names of its entries, in listing order
    sinkDir,       \* sink_dir: file name -> content
    now,           \* the Unix clock, in seconds
    \* the router thread
    pc,            \* position of the router thread
    entries,       \* the listing read by read_dir
    i,             \* enumerate() index of the next entry (0-based)
    files,         \* the selected source files of the iteration
    metrics,       \* the accumulated lines of the iteration
    batch_size,    \* the accumulated byte size of the iteration
    k,             \* index of the loops over sinks and over files
    rot_now,       \* `now` of the rotate step
    result,        \* what the last call of route returned
    \* history
    hist,          \* what happened so far (see HistInit)
    \* label injection on its own (SpecLine)
    inj_line, inj_out,
    \* the router loop, the main thread and the other workers (SpecSched)
    label_map,     \* the labels argument of router(): <<key, value>> pairs
                   \* in the order the configuration inserted them
    sigint,        \* the shared AtomicBool
    SIGINT,        \* the static the signal handler sets
    main_pc,       \* position of the main thread
    joined,        \* number of handles main has joined
    done,          \* the source and sink workers that have returned
    elapsed,       \* milliseconds the last cycle took
    sleep_time,    \* milliseconds the router means to sleep
    rounds,        \* iterations of the sleep loop done since the last cycle
    slept,         \* milliseconds slept since the last cycle
    backlog,       \* number of .metrics files waiting in source_dir
    late           \* cycles started while sigint was set

routerVars == <<pc, entries, i, files, metrics, batch_size, k, rot_now, result>>
configVars == <<labels, parameters>>
injVars == <<inj_line, inj_out>>
schedVars == <<label_map, sigint, SIGINT, main_pc, joined, done, elapsed,
               sleep_time, rounds, slept, backlog, late>>
vars == <<labels, parameters, sourceDir, sinkDir, now, pc, entries, i, files,
          metrics, batch_size, k, rot_now, result, hist, inj_line, inj_out,
          schedVars>>

(***************************************************************************)
(* Bounds of the model.                                                    *)
(***************************************************************************)
\* entries of source_dir when the router starts
MaxDir == 2
\* calls of route
MaxCycles == 2
\* events of the environment: clock ticks, I/O failures, files added by the
\* source writer, files removed by the sink reader
MaxEvents == 1
\* length of the lines given to the label injection on its own
MaxLineLen == 4

None == "none"

(***************************************************************************)
(* Strings.                                                                *)
(***************************************************************************)
\* str::find of one character: the first position of c in s, 0 when absent
FirstIndex(s, c) ==
    IF \E p \in 1..Len(s) : s[p] = c
    THEN CHOOSE p \in 1..Len(s) : s[p] = c /\ \A q \in 1..(p - 1) : s[q] # c
    ELSE 0

IsWhitespace(c) == c = " "

RECURSIVE SplitNewline(_)
SplitNewline(s) ==
    LET p == FirstIndex(s, "\n")
    IN  IF p = 0 THEN <<s>>
        ELSE <<SubSeq(s, 1, p - 1)>> \o SplitNewline(SubSeq(s, p + 1, Len(s)))

\* str::lines: the pieces between line terminators, without a final empty piece
Lines(s) ==
    LET p == SplitNewline(s)
    IN  IF p[Len(p)] = <<>> THEN SubSeq(p, 1, Len(p) - 1) ELSE p

\* str::splitn(2, "{"): one piece when there is no "{", else two
Splitn2(line) ==
    LET p == FirstIndex(line, "{")
    IN  IF p = 0 THEN <<line>>
        ELSE <<SubSeq(line, 1, p - 1), SubSeq(line, p + 1, Len(line))>>

RECURSIVE TrimStart(_)
TrimStart(s) ==
    IF s # <<>> /\ IsWhitespace(s[1]) THEN TrimStart(Tail(s)) ELSE s

RECURSIVE TrimEnd(_)
TrimEnd(s) ==
    IF s # <<>> /\ IsWhitespace(s[Len(s)])
    THEN TrimEnd(SubSeq(s, 1, Len(s) - 1)) ELSE s

\* str::trim
Trim(s) == TrimEnd(TrimStart(s))

\* str::starts_with("}")
StartsWithClose(s) == s # <<>> /\ s[1] = "}"

RECURSIVE SplitWhitespace(_)
\* str::split_whitespace: the non-empty pieces between runs of whitespace
SplitWhitespace(s) ==
    LET t == TrimStart(s)
        p == IF \E q \in 1..Len(t) : IsWhitespace(t[q])
             THEN CHOOSE q \in 1..Len(t) :
                      IsWhitespace(t[q]) /\ \A r \in 1..(q - 1) : ~IsWhitespace(t[r])
             ELSE 0
    IN  IF t = <<>> THEN <<>>
        ELSE IF p = 0 THEN <<t>>
        ELSE <<SubSeq(t, 1, p - 1)>> \o SplitWhitespace(SubSeq(t, p + 1, Len(t)))

(***************************************************************************)
(* Label injection, router.rs lines 92-124: what one line of a source file *)
(* adds to `metrics` (no line or one line).                                *)
(***************************************************************************)
\* Separator without the test for an empty label-set
SeparatorAlways(plabels) == <<",">>

\* lines 116-121: the text between the GlobalLabels and the line's labels
Separator(plabels) == IF StartsWithClose(Trim(plabels)) THEN <<>> ELSE <<",">>

\* Relabel with a line that has no "{" kept as it is
RelabelKeepsMalformed(lbls, line) ==
    IF lbls = <<>> \/ Len(Splitn2(line)) < 2 THEN <<line>>
    ELSE LET parts == Splitn2(line)
         IN  <<parts[1] \o <<"{">> \o lbls \o Separator(parts[2]) \o parts[2]>>

Relabel(lbls, line) ==
    IF lbls = <<>> THEN <<line>>
    ELSE LET parts == Splitn2(line)
         IN  IF Len(parts) < 2 THEN <<>>
             ELSE LET class == parts[1]
                      plabels == parts[2]
                      slabels == lbls \o Separator(plabels) \o plabels
                  IN  <<class \o <<"{">> \o slabels>>

RECURSIVE RelabelAll(_, _)
RelabelAll(lbls, lines) ==
    IF lines = <<>> THEN <<>>
    ELSE Relabel(lbls, Head(lines)) \o RelabelAll(lbls, Tail(lines))

(***************************************************************************)
(* The configuration and the files the source writer produces.             *)
(***************************************************************************)
\* config::Sink: a name and an optional selector.  A selector is a regular
\* expression of one literal character: it matches the texts that hold it.
sinks ==
    << [name |-> "s1", selector |-> None],
       [name |-> "s2", selector |-> "7"] >>

SinkNames == {sinks[n].name : n \in 1..Len(sinks)}

\* Regex::is_match of such a selector
IsMatch(selector, text) == \E p \in 1..Len(text) : text[p] = selector

\* the GlobalLabels strings the router may be started with: none, or e=p
LabelChoices == {<<>>, <<"e", "=", "p">>}

\* the directory entries of the model: two readable .metrics files, an
\* unreadable one, and an entry that is no .metrics file
Pool == {"a", "b", "u", "x"}

\* Path::extension of an entry
Extension(n) == IF n = "x" THEN "txt" ELSE "metrics"

\* whether read() of the entry succeeds
Readable(n) == n # "u"

\* the text read() returns
Content(n) ==
    CASE n = "a" -> <<"f", "{", "}", " ", "5", "\n", "\n">>
      [] n = "b" -> <<"g", "{", "b", "}", " ", "7", "\n", "b", "a", "d", "\n">>
      [] OTHER   -> <<"z", "\n">>

\* the names of sink_dir
TmpFile(s) == [kind |-> "tmp", sink |-> s, ts |-> 0]
CommittedFile(s, t) == [kind |-> "metrics", sink |-> s, ts |-> t]

\* a directory without one of its files, and with a file created or replaced
Without(dir, f) == [g \in DOMAIN dir \ {f} |-> dir[g]]
With(dir, f, content) == (f :> content) @@ dir

\* a listing without one of its names, the others in their order
RECURSIVE Remove(_, _)
Remove(listing, n) ==
    IF listing = <<>> THEN <<>>
    ELSE IF Head(listing) = n THEN Tail(listing)
    ELSE <<Head(listing)>> \o Remove(Tail(listing), n)

\* a listing with a name added at position p
Insert(listing, n, p) ==
    SubSeq(listing, 1, p) \o <<n>> \o SubSeq(listing, p + 1, Len(listing))

Range(s) == {s[p] : p \in 1..Len(s)}

\* the sequences of distinct names of Pool of the given lengths
RECURSIVE Listings(_)
Listings(n) ==
    IF n = 0 THEN {<<>>}
    ELSE LET shorter == Listings(n - 1)
         IN  shorter \cup
             {Append(l, m) : l \in {x \in shorter : Len(x) = n - 1},
                             m \in Pool} 

DistinctListings(n) == {l \in Listings(n) : Cardinality(Range(l)) = Len(l)}

(***************************************************************************)
(* route, router.rs lines 59-189.                                          *)
(***************************************************************************)
\* CeilingReached with the ceilings themselves excluded
CeilingReachedStrict(idx, size, params) ==
    idx >= params.batch_count \/ size >= params.batch_size

\* line 79: the batch ceilings, tested before a file is read
CeilingReached(idx, size, params) ==
    idx > params.batch_count \/ size > params.batch_size

\* Excluded with the selector tested against the first token
ExcludedFirstToken(sink, line) ==
    /\ sink.selector # None
    /\ LET tokens == SplitWhitespace(line)
       IN  Len(tokens) >= 1 /\ IsMatch(sink.selector, tokens[1])

\* lines 154-161: whether the sink leaves the line out
Excluded(sink, line) ==
    /\ sink.selector # None
    /\ LET tokens == SplitWhitespace(line)
       IN  Len(tokens) >= 2 /\ IsMatch(sink.selector, tokens[2])

\* lines 162-163: the sink's pending file after the line was written to it
WriteTo(dir, sink, line) ==
    IF Excluded(sink, line) THEN dir
    ELSE [dir EXCEPT ![TmpFile(sink.name)] = @ \o line \o <<"\n">>]

\* lines 153-164 for the sinks 1..n
RECURSIVE WriteSinks(_, _, _)
WriteSinks(dir, line, n) ==
    IF n = 0 THEN dir
    ELSE WriteTo(WriteSinks(dir, line, n - 1), sinks[n], line)

\* Create that opens an existing file without truncating it
CreateKeepsContent(dir, f) == IF f \in DOMAIN dir THEN dir ELSE With(dir, f, <<>>)

\* line 143: File::create truncates
Create(dir, f) == With(dir, f, <<>>)

\* Rename that copies: the source name stays
RenameKeepsSource(dir, from, to) == With(dir, to, dir[from])

\* line 178: fs::rename replaces the destination
Rename(dir, from, to) == With(Without(dir, from), to, dir[from])

\* the router loop and the main thread at rest, for the specifications that
\* leave them out
IdleSched ==
    /\ label_map = <<>>
    /\ sigint = FALSE
    /\ SIGINT = FALSE
    /\ main_pc = "wait"
    /\ joined = 0
    /\ done = {}
    /\ elapsed = 0
    /\ sleep_time = 0
    /\ rounds = 0
    /\ slept = 0
    /\ backlog = 0
    /\ late = 0

HistInit(dir) ==
    [ events    |-> 0,        \* events of the environment so far
      cycles    |-> 0,        \* calls of route so far
      used      |-> Range(dir), \* every name source_dir ever held
      deleted   |-> {},       \* source files the router removed
      consumed  |-> {},       \* committed files the sink reader removed
      iterDeleted |-> {},     \* source files removed by the current iteration
      renamed   |-> {},       \* sinks renamed by the current iteration
      cycleDir  |-> <<>>,     \* source_dir when the current cycle started
      cycleCommitted |-> {},  \* committed files created by the current cycle
      cycleFiles |-> {},      \* source files selected by the current cycle
      iters     |-> 0,        \* iterations of the current cycle that selected files
      added     |-> FALSE,    \* the source writer added a file during the cycle
      err       |-> None,     \* the step whose error route returned
      errAt     |-> 0,        \* its index in its loop
      pending   |-> [s \in SinkNames |-> <<>>],
                              \* the pending files' contents when flushed
      failed    |-> [set |-> FALSE, dir |-> <<>>, files |-> <<>>,
                     pending |-> [s \in SinkNames |-> <<>>]] ]
                              \* the iteration whose rename failed last

Init ==
    /\ labels \in LabelChoices
    /\ parameters \in [batch_count : {0, 1}, batch_size : {5, 100}]
    /\ sourceDir \in DistinctListings(MaxDir)
    /\ sinkDir = <<>>
    /\ now = 0
    /\ pc = "start"
    /\ entries = <<>>
    /\ i = 0
    /\ files = <<>>
    /\ metrics = <<>>
    /\ batch_size = 0
    /\ k = 1
    /\ rot_now = 0
    /\ result = None
    /\ hist = HistInit(sourceDir)
    /\ inj_line = <<>>
    /\ inj_out = <<>>
    /\ IdleSched

\* router(), lines 36-38: a cycle starts
StartCycle ==
    /\ pc = "start"
    /\ pc' = "list"
    /\ hist' = [hist EXCEPT !.cycles = @ + 1, !.cycleDir = sourceDir,
                            !.cycleCommitted = {}, !.cycleFiles = {},
                            !.iters = 0, !.added = FALSE]
    /\ UNCHANGED <<configVars, sourceDir, sinkDir, now, entries, i, files,
                   metrics, batch_size, k, rot_now, result, injVars, schedVars>>

\* route returns: lines 65, 72, 143, 162, 169, 178, 184 (try!) and 188
Return(res, step, at) ==
    /\ pc' = "sleep"
    /\ result' = res
    /\ hist' = [hist EXCEPT !.err = step, !.errAt = at,
                            !.events = IF res = "err" THEN @ + 1 ELSE @]

CanFail == hist.events < MaxEvents

\* line 71: the loop over the listing goes on while entries are left
AfterEntry(idx, listing) == IF idx < Len(listing) THEN "scan" ELSE "selected"

\* lines 65-70: a new iteration lists source_dir
ListDir ==
    /\ pc = "list"
    /\ pc' = AfterEntry(0, sourceDir)
    /\ entries' = sourceDir
    /\ i' = 0
    /\ files' = <<>>
    /\ metrics' = <<>>
    /\ batch_size' = 0
    /\ hist' = [hist EXCEPT !.iterDeleted = {}, !.renamed = {}]
    /\ UNCHANGED <<configVars, sourceDir, sinkDir, now, k, rot_now, result, injVars, schedVars>>

\* line 65: read_dir fails
ListFail ==
    /\ pc = "list"
    /\ CanFail
    /\ pc' = "sleep"
    /\ result' = "err"
    /\ hist' = [hist EXCEPT !.err = "read_dir", !.errAt = 0, !.events = @ + 1,
                            !.iterDeleted = {}, !.renamed = {}]
    /\ UNCHANGED <<configVars, sourceDir, sinkDir, now, entries, i, files,
                   metrics, batch_size, k, rot_now, injVars, schedVars>>

\* ScanEntry with the file pushed to files before it is read
ScanEntryPushesUnread ==
    /\ pc = "scan"
    /\ i < Len(entries)
    /\ LET entry == entries[i + 1]
       IN  IF Extension(entry) # "metrics"
           THEN /\ i' = i + 1
                /\ pc' = AfterEntry(i + 1, entries)
                /\ UNCHANGED <<files, metrics, batch_size>>
           ELSE IF CeilingReached(i, batch_size, parameters)
           THEN /\ pc' = "selected"
                /\ UNCHANGED <<i, files, metrics, batch_size>>
           ELSE IF ~Readable(entry)
           THEN /\ files' = Append(files, entry)
                /\ i' = i + 1
                /\ pc' = AfterEntry(i + 1, entries)
                /\ UNCHANGED <<metrics, batch_size>>
           ELSE /\ metrics' = metrics \o RelabelAll(labels, Lines(Content(entry)))
                /\ files' = Append(files, entry)
                /\ batch_size' = batch_size + Len(Content(entry))
                /\ i' = i + 1
                /\ pc' = AfterEntry(i + 1, entries)
    /\ UNCHANGED <<configVars, sourceDir, sinkDir, now, entries, k, rot_now,
                   result, hist, injVars, schedVars>>

\* lines 71-128: one entry of the listing
ScanEntry ==
    /\ pc = "scan"
    /\ i < Len(entries)
    /\ LET entry == entries[i + 1]
       IN  IF Extension(entry) # "metrics"
           THEN /\ i' = i + 1
                /\ pc' = AfterEntry(i + 1, entries)
                /\ UNCHANGED <<files, metrics, batch_size>>
           ELSE IF CeilingReached(i, batch_size, parameters)
           THEN /\ pc' = "selected"
                /\ UNCHANGED <<i, files, metrics, batch_size>>
           ELSE IF ~Readable(entry)
           THEN /\ i' = i + 1
                /\ pc' = AfterEntry(i + 1, entries)
                /\ UNCHANGED <<files, metrics, batch_size>>
           ELSE /\ metrics' = metrics \o RelabelAll(labels, Lines(Content(entry)))
                /\ files' = Append(files, entry)
                /\ batch_size' = batch_size + Len(Content(entry))
                /\ i' = i + 1
                /\ pc' = AfterEntry(i + 1, entries)
    /\ UNCHANGED <<configVars, sourceDir, sinkDir, now, entries, k, rot_now,
                   result, hist, injVars, schedVars>>

\* line 72: reading an entry of the listing fails
EntryFail ==
    /\ pc = "scan"
    /\ i < Len(entries)
    /\ CanFail
    /\ Return("err", "entry", i)
    /\ UNCHANGED <<configVars, sourceDir, sinkDir, now, entries, i, files,
                   metrics, batch_size, k, rot_now, injVars, schedVars>>

\* lines 130-133 and 188: nothing was selected, route returns Ok
NothingToDo ==
    /\ pc = "selected"
    /\ Len(files) = 0
    /\ Return("ok", None, 0)
    /\ UNCHANGED <<configVars, sourceDir, sinkDir, now, entries, i, files,
                   metrics, batch_size, k, rot_now, injVars, schedVars>>

\* SetupSinks without the test of line 131
SetupSinksAlways ==
    /\ pc = "selected"
    /\ pc' = "create"
    /\ k' = 1
    /\ hist' = [hist EXCEPT !.iters = @ + 1,
                            !.cycleFiles = @ \cup Range(files)]
    /\ UNCHANGED <<configVars, sourceDir, sinkDir, now, entries, i, files,
                   metrics, batch_size, rot_now, result, injVars, schedVars>>

\* lines 135-138: files were selected
SetupSinks ==
    /\ pc = "selected"
    /\ Len(files) # 0
    /\ pc' = "create"
    /\ k' = 1
    /\ hist' = [hist EXCEPT !.iters = @ + 1,
                            !.cycleFiles = @ \cup Range(files)]
    /\ UNCHANGED <<configVars, sourceDir, sinkDir, now, entries, i, files,
                   metrics, batch_size, rot_now, result, injVars, schedVars>>

\* lines 140-144: the pending file of sink k is created
OpenTmp ==
    /\ pc = "create"
    /\ k <= Len(sinks)
    /\ sinkDir' = Create(sinkDir, TmpFile(sinks[k].name))
    /\ IF k < Len(sinks) THEN k' = k + 1 /\ pc' = pc
                          ELSE k' = 1 /\ pc' = "write"
    /\ UNCHANGED <<configVars, sourceDir, now, entries, i, files, metrics,
                   batch_size, rot_now, result, hist, injVars, schedVars>>

\* line 143: File::create fails
OpenFail ==
    /\ pc = "create"
    /\ k <= Len(sinks)
    /\ CanFail
    /\ Return("err", "create", k)
    /\ UNCHANGED <<configVars, sourceDir, sinkDir, now, entries, i, files,
                   metrics, batch_size, k, rot_now, injVars, schedVars>>

\* lines 148-165: line k of metrics is written to the sinks
WriteLine ==
    /\ pc = "write"
    /\ k <= Len(metrics)
    /\ sinkDir' = IF metrics[k] = <<>> THEN sinkDir
                  ELSE WriteSinks(sinkDir, metrics[k], Len(sinks))
    /\ k' = k + 1
    /\ UNCHANGED <<configVars, sourceDir, now, pc, entries, i, files, metrics,
                   batch_size, rot_now, result, hist, injVars, schedVars>>

\* lines 162-163: a write to sink n fails, after the sinks before it were written
WriteFail ==
    /\ pc = "write"
    /\ k <= Len(metrics)
    /\ metrics[k] # <<>>
    /\ CanFail
    /\ \E n \in 1..Len(sinks) :
          /\ ~Excluded(sinks[n], metrics[k])
          /\ sinkDir' = WriteSinks(sinkDir, metrics[k], n - 1)
    /\ Return("err", "write", k)
    /\ UNCHANGED <<configVars, sourceDir, now, entries, i, files, metrics,
                   batch_size, k, rot_now, injVars, schedVars>>

\* Flush taken before every line of the batch is written
FlushEarly ==
    /\ pc = "write"
    /\ k >= 1
    /\ pc' = "rotate"
    /\ k' = 1
    /\ rot_now' = now
    /\ hist' = [hist EXCEPT !.pending =
                   [s \in SinkNames |-> sinkDir[TmpFile(s)]]]
    /\ UNCHANGED <<configVars, sourceDir, sinkDir, now, entries, i, files,
                   metrics, batch_size, result, injVars, schedVars>>

\* lines 167-174: the pending files are flushed and closed, the clock is read
Flush ==
    /\ pc = "write"
    /\ k > Len(metrics)
    /\ pc' = "rotate"
    /\ k' = 1
    /\ rot_now' = now
    /\ hist' = [hist EXCEPT !.pending =
                   [s \in SinkNames |-> sinkDir[TmpFile(s)]]]
    /\ UNCHANGED <<configVars, sourceDir, sinkDir, now, entries, i, files,
                   metrics, batch_size, result, injVars, schedVars>>

\* line 169: a flush fails
FlushFail ==
    /\ pc = "write"
    /\ k > Len(metrics)
    /\ CanFail
    /\ Return("err", "flush", 0)
    /\ UNCHANGED <<configVars, sourceDir, sinkDir, now, entries, i, files,
                   metrics, batch_size, k, rot_now, injVars, schedVars>>

\* lines 175-179: the pending file of sink k is renamed
Rotate ==
    /\ pc = "rotate"
    /\ k <= Len(sinks)
    /\ LET dest_file == CommittedFile(sinks[k].name, rot_now)
       IN  /\ sinkDir' = Rename(sinkDir, TmpFile(sinks[k].name), dest_file)
           /\ hist' = [hist EXCEPT !.renamed = @ \cup {sinks[k].name},
                                   !.cycleCommitted = @ \cup {dest_file}]
    /\ IF k < Len(sinks) THEN k' = k + 1 /\ pc' = pc
                          ELSE k' = 1 /\ pc' = "delete"
    /\ UNCHANGED <<configVars, sourceDir, now, entries, i, files, metrics,
                   batch_size, rot_now, result, injVars, schedVars>>

\* RotateFail with the error of fs::rename dropped: the loop goes on
RotateFailIgnored ==
    /\ pc = "rotate"
    /\ k <= Len(sinks)
    /\ CanFail
    /\ IF k < Len(sinks) THEN k' = k + 1 /\ pc' = pc
                          ELSE k' = 1 /\ pc' = "delete"
    /\ hist' = [hist EXCEPT !.events = @ + 1]
    /\ UNCHANGED <<configVars, sourceDir, sinkDir, now, entries, i, files,
                   metrics, batch_size, rot_now, result, injVars, schedVars>>

\* RotateFail with the selected source files removed on the error path
RotateFailRemoves ==
    /\ pc = "rotate"
    /\ k <= Len(sinks)
    /\ CanFail
    /\ pc' = "sleep"
    /\ result' = "err"
    /\ sourceDir' = SelectSeq(sourceDir, LAMBDA n : n \notin Range(files))
    /\ hist' = [hist EXCEPT !.err = "rename", !.errAt = k, !.events = @ + 1,
                            !.deleted = @ \cup Range(files),
                            !.iterDeleted = @ \cup Range(files),
                            !.failed = [set |-> TRUE, dir |-> entries,
                                        files |-> files,
                                        pending |-> hist.pending]]
    /\ UNCHANGED <<configVars, sinkDir, now, entries, i, files,
                   metrics, batch_size, k, rot_now, injVars, schedVars>>

\* line 178: fs::rename fails
RotateFail ==
    /\ pc = "rotate"
    /\ k <= Len(sinks)
    /\ CanFail
    /\ pc' = "sleep"
    /\ result' = "err"
    /\ hist' = [hist EXCEPT !.err = "rename", !.errAt = k, !.events = @ + 1,
                            !.failed = [set |-> TRUE, dir |-> entries,
                                        files |-> files,
                                        pending |-> hist.pending]]
    /\ UNCHANGED <<configVars, sourceDir, sinkDir, now, entries, i, files,
                   metrics, batch_size, k, rot_now, injVars, schedVars>>

\* RemoveFile that lists source_dir again and removes every .metrics file
RemoveFileRelists ==
    /\ pc = "delete"
    /\ k <= Len(files)
    /\ LET gone == {n \in Range(sourceDir) : Extension(n) = "metrics"}
       IN  /\ sourceDir' = SelectSeq(sourceDir, LAMBDA n : n \notin gone)
           /\ hist' = [hist EXCEPT !.deleted = @ \cup gone,
                                   !.iterDeleted = @ \cup gone]
    /\ k' = k + 1
    /\ pc' = IF k < Len(files) THEN pc ELSE "list"
    /\ UNCHANGED <<configVars, sinkDir, now, entries, i, files, metrics,
                   batch_size, rot_now, result, injVars, schedVars>>

\* lines 182-185: source file k of the batch is removed
RemoveFile ==
    /\ pc = "delete"
    /\ k <= Len(files)
    /\ sourceDir' = Remove(sourceDir, files[k])
    /\ hist' = [hist EXCEPT !.deleted = @ \cup {files[k]},
                            !.iterDeleted = @ \cup {files[k]}]
    /\ k' = k + 1
    /\ pc' = IF k < Len(files) THEN pc ELSE "list"
    /\ UNCHANGED <<configVars, sinkDir, now, entries, i, files, metrics,
                   batch_size, rot_now, result, injVars, schedVars>>

\* line 184: fs::remove_file fails
RemoveFail ==
    /\ pc = "delete"
    /\ k <= Len(files)
    /\ CanFail
    /\ Return("err", "remove", k)
    /\ UNCHANGED <<configVars, sourceDir, sinkDir, now, entries, i, files,
                   metrics, batch_size, k, rot_now, injVars, schedVars>>

\* router(), lines 43-55: the router sleeps, then loops
Sleep ==
    /\ pc = "sleep"
    /\ hist.cycles < MaxCycles
    /\ pc' = "start"
    /\ UNCHANGED <<configVars, sourceDir, sinkDir, now, entries, i, files,
                   metrics, batch_size, k, rot_now, result, hist, injVars, schedVars>>

(***************************************************************************)
(* The environment.                                                        *)
(***************************************************************************)
\* time::now_utc advances by a second
Tick ==
    /\ hist.events < MaxEvents
    /\ now' = now + 1
    /\ hist' = [hist EXCEPT !.events = @ + 1]
    /\ UNCHANGED <<configVars, sourceDir, sinkDir, routerVars, injVars, schedVars>>

\* the source writer makes a complete file visible under a fresh name
SourceWriter ==
    /\ hist.events < MaxEvents
    /\ \E n \in Pool \ hist.used, p \in 0..Len(sourceDir) :
          /\ sourceDir' = Insert(sourceDir, n, p)
          /\ hist' = [hist EXCEPT !.events = @ + 1, !.used = @ \cup {n},
                                  !.added = TRUE]
    /\ UNCHANGED <<configVars, sinkDir, now, routerVars, injVars, schedVars>>

\* the sink reader removes a committed file it has delivered
SinkReader ==
    /\ hist.events < MaxEvents
    /\ \E f \in DOMAIN sinkDir :
          /\ f.kind = "metrics"
          /\ sinkDir' = Without(sinkDir, f)
          /\ hist' = [hist EXCEPT !.events = @ + 1,
                        !.consumed = @ \cup {[file |-> f, content |-> sinkDir[f]]}]
    /\ UNCHANGED <<configVars, sourceDir, now, routerVars, injVars, schedVars>>

RouterStep ==
    \/ StartCycle \/ ListDir \/ ListFail \/ ScanEntry \/ EntryFail
    \/ NothingToDo \/ SetupSinks \/ OpenTmp \/ OpenFail
    \/ WriteLine \/ WriteFail \/ Flush \/ FlushFail
    \/ Rotate \/ RotateFail \/ RemoveFile \/ RemoveFail \/ Sleep

Next == RouterStep \/ Tick \/ SourceWriter \/ SinkReader

Spec == Init /\ [][Next]_vars

(***************************************************************************)
(* The label injection on its own: every line up to MaxLineLen characters  *)
(* is given to it, with and without GlobalLabels.                          *)
(***************************************************************************)
\* the characters of the lines: those of the labels, the braces, the blank
Alphabet == {"e", "=", "p", "{", "}", " "}

AllLines == UNION {[1..n -> Alphabet] : n \in 0..MaxLineLen}

InitLine ==
    /\ labels \in LabelChoices
    /\ parameters = [batch_count |-> 0, batch_size |-> 100]
    /\ sourceDir = <<>>
    /\ sinkDir = <<>>
    /\ now = 0
    /\ pc = "start"
    /\ entries = <<>>
    /\ i = 0
    /\ files = <<>>
    /\ metrics = <<>>
    /\ batch_size = 0
    /\ k = 1
    /\ rot_now = 0
    /\ result = None
    /\ hist = HistInit(<<>>)
    /\ inj_line \in AllLines
    /\ inj_out = <<>>
    /\ IdleSched

\* lines 92-124 for the line inj_line: inj_out holds what it adds to metrics
Inject ==
    /\ inj_out = <<>>
    /\ inj_out' = <<Relabel(labels, inj_line)>>
    /\ UNCHANGED <<configVars, sourceDir, sinkDir, now, routerVars, hist,
                   inj_line, schedVars>>

NextLine == Inject

SpecLine == InitLine /\ [][NextLine]_vars

(***************************************************************************)
(* Properties of the routing cycle.                                        *)
(***************************************************************************)
HasBrace(line) == \E p \in 1..Len(line) : line[p] = "{"

\* the selected files of the iteration in progress, or of the one that ended last
Selected == IF hist.err = "read_dir" /\ pc = "sleep" THEN <<>> ELSE files

\* the contents of the committed files of a sink, in sink_dir or taken by the
\* sink reader
CommittedOf(s) ==
    {sinkDir[f] : f \in {g \in DOMAIN sinkDir : g.kind = "metrics" /\ g.sink = s}}
    \cup {c.content : c \in {d \in hist.consumed : d.file.sink = s}}

\* the line of a deleted source file is in a committed file of the sink
Delivered(sink, line) ==
    \E c \in CommittedOf(sink.name) :
        \E q \in 1..Len(Lines(c)) : <<Lines(c)[q]>> = Relabel(labels, line)

\* C1: every well-formed line of a source file the router deleted, unless the
\* sink's selector excludes it, is in a committed file of each sink that is in
\* sink_dir or was removed by the sink reader.
NoDataLoss ==
    \A f \in hist.deleted : \A n \in 1..Len(sinks) :
        \A q \in 1..Len(Lines(Content(f))) :
            LET line == Lines(Content(f))[q]
            IN  (/\ line # <<>>
                 /\ HasBrace(line)
                 /\ ~Excluded(sinks[n], Relabel(labels, line)[1]))
                => Delivered(sinks[n], line)

\* C2: a source file of an iteration is removed only after the pending file
\* of every sink was renamed in that iteration: the committed files of the
\* iteration are then in sink_dir, or with the sink reader.
DeleteAfterCommit ==
    hist.iterDeleted # {} =>
        /\ hist.renamed = SinkNames
        /\ \A s \in SinkNames :
              \/ CommittedFile(s, rot_now) \in DOMAIN sinkDir
              \/ \E c \in hist.consumed : c.file = CommittedFile(s, rot_now)

\* C2's case: a source file was removed, after every sink was renamed
DeleteAfterCommitWitness ==
    /\ pc = "delete"
    /\ hist.iterDeleted # {}
    /\ hist.renamed = SinkNames

\* C3 as stated: when route returns an error, no source file selected by the
\* failing iteration has been deleted.
FailedIterationDeletesNothing ==
    (pc = "sleep" /\ result = "err") => hist.iterDeleted = {}

\* C3, amended: route returns the error; unless the failing step is the removal
\* of a source file, no selected file of the failing iteration has been
\* deleted; when the removal of the file at position errAt fails, exactly the
\* selected files before it have been deleted and the others are still in
\* source_dir; files deleted earlier stay deleted.
FailureKeepsSources ==
    (pc = "sleep" /\ result = "err") =>
        /\ hist.err \in {"read_dir", "entry", "create", "write", "flush",
                         "rename", "remove"}
        /\ hist.err # "remove" =>
              /\ hist.iterDeleted = {}
              /\ Range(Selected) \subseteq Range(sourceDir)
        /\ hist.err = "remove" =>
              /\ hist.iterDeleted = {files[q] : q \in 1..(hist.errAt - 1)}
              /\ \A q \in hist.errAt..Len(files) : files[q] \in Range(sourceDir)
        /\ hist.deleted \cap Range(sourceDir) = {}

\* C3's cases: a rename failed with files selected, and the removal of the
\* second file of a batch failed
FailureKeepsSourcesWitness ==
    /\ pc = "sleep"
    /\ result = "err"
    /\ hist.err = "remove"
    /\ hist.errAt = 2
    /\ hist.deleted # {}

\* a cycle that returned success, without the source writer, in which one
\* batch selected all the .metrics files source_dir held, all readable
OneBatchCycle ==
    /\ pc = "sleep"
    /\ result = "ok"
    /\ ~hist.added
    /\ hist.iters = 1
    /\ LET had == {n \in Range(hist.cycleDir) : Extension(n) = "metrics"}
       IN  /\ had # {}
           /\ \A n \in had : Readable(n)
           /\ hist.cycleFiles = had

\* C4: after such a cycle the cycle has created exactly one committed file
\* per sink, all with one timestamp, each in sink_dir unless the sink reader
\* has removed it; sink_dir holds no pending file; the source files are gone.
CommitAtomicity ==
    OneBatchCycle =>
        /\ \E t \in 0..now :
              hist.cycleCommitted = {CommittedFile(s, t) : s \in SinkNames}
        /\ Cardinality(hist.cycleCommitted) = Len(sinks)
        /\ \A f \in hist.cycleCommitted :
              \/ f \in DOMAIN sinkDir
              \/ \E c \in hist.consumed : c.file = f
        /\ \A f \in DOMAIN sinkDir : f.kind # "tmp"
        /\ \A n \in hist.cycleFiles : n \notin Range(sourceDir)

\* C4's case: such a cycle, with two source files and the committed files
\* still in sink_dir
CommitAtomicityWitness ==
    /\ OneBatchCycle
    /\ Cardinality(hist.cycleFiles) = 2
    /\ hist.cycleCommitted \subseteq DOMAIN sinkDir

\* C5: when a rename fails, no source file of the iteration is deleted, and an
\* iteration that lists the same source_dir afterwards selects the same files
\* and has written the same pending file for every sink when it starts to
\* rename, whatever the failed iteration left in sink_dir.
RetryReproducesBatch ==
    /\ (pc = "sleep" /\ result = "err" /\ hist.err = "rename") =>
          /\ hist.iterDeleted = {}
          /\ Range(files) \subseteq Range(sourceDir)
    /\ (hist.failed.set /\ pc = "rotate" /\ k = 1 /\ entries = hist.failed.dir) =>
          /\ files = hist.failed.files
          /\ \A s \in SinkNames : sinkDir[TmpFile(s)] = hist.failed.pending[s]

\* C5's case: the cycle after a failed rename has written its pending files
\* from the unchanged source_dir
RetryReproducesBatchWitness ==
    /\ hist.failed.set
    /\ hist.cycles = 2
    /\ pc = "rotate"
    /\ k = 1
    /\ entries = hist.failed.dir
    /\ hist.failed.pending["s1"] # <<>>

\* C6: a committed file of sink_dir stays as it is, unless the sink reader
\* removes it.
CommittedImmutable ==
    [][\A f \in DOMAIN sinkDir :
          f.kind = "metrics" =>
              \/ f \in DOMAIN sinkDir' /\ sinkDir'[f] = sinkDir[f]
              \/ /\ f \notin DOMAIN sinkDir'
                 /\ [file |-> f, content |-> sinkDir[f]] \in hist'.consumed
                 /\ [file |-> f, content |-> sinkDir[f]] \notin hist.consumed]_vars

\* C7: when a cycle returns success and the source writer added no file
\* during it, source_dir holds no readable .metrics file.
DrainToEmpty ==
    (pc = "sleep" /\ result = "ok" /\ ~hist.added) =>
        \A n \in Range(sourceDir) : ~(Extension(n) = "metrics" /\ Readable(n))

RECURSIVE SumSizes(_)
SumSizes(fs) == IF fs = <<>> THEN 0 ELSE Len(Content(Head(fs))) + SumSizes(Tail(fs))

\* C8: an iteration selects at most batch_count + 1 files; the selected files
\* without the last one hold at most batch_size bytes; and of batch_count + 2
\* readable .metrics files that are the only entries, with the byte ceiling
\* not reached, one iteration selects exactly batch_count + 1.
BatchCeiling ==
    /\ Len(files) <= parameters.batch_count + 1
    /\ files # <<>> =>
          SumSizes(SubSeq(files, 1, Len(files) - 1)) <= parameters.batch_size
    /\ (/\ pc = "selected"
        /\ Len(entries) = parameters.batch_count + 2
        /\ \A n \in Range(entries) : Extension(n) = "metrics" /\ Readable(n)
        /\ SumSizes(SubSeq(entries, 1, parameters.batch_count))
              <= parameters.batch_size)
       => Len(files) = parameters.batch_count + 1

\* C8's case: two readable .metrics files, batch_count = 0, one file selected
BatchCeilingWitness ==
    /\ pc = "selected"
    /\ parameters.batch_count = 0
    /\ Len(entries) = 2
    /\ \A n \in Range(entries) : Extension(n) = "metrics" /\ Readable(n)
    /\ Len(files) = 1

\* the line "c{r" with the GlobalLabels g put after its first "{"
InjectedForm(g, line) ==
    LET p == CHOOSE q \in 1..Len(line) :
                 line[q] = "{" /\ \A r \in 1..(q - 1) : line[r] # "{"
        c == [q \in 1..(p - 1) |-> line[q]]
        r == [q \in 1..(Len(line) - p) |-> line[p + q]]
        emptySet == \E q \in 1..Len(r) :
                        r[q] = "}" /\ \A j \in 1..(q - 1) : r[j] = " "
    IN  c \o <<"{">> \o g \o (IF emptySet THEN <<>> ELSE <<",">>) \o r

RECURSIVE RawLines(_)
RawLines(fs) ==
    IF fs = <<>> THEN <<>> ELSE Lines(Content(Head(fs))) \o RawLines(Tail(fs))

\* what the sink's pending file holds when the lines without "{" are dropped
\* (kept, as they are, when there are no GlobalLabels)
ExpectedPending(sink) ==
    LET kept == SelectSeq(RawLines(files),
                          LAMBDA l : l # <<>> /\ (labels # <<>> => HasBrace(l)))
        emitted == [q \in 1..Len(kept) |->
                       IF labels = <<>> THEN kept[q]
                       ELSE InjectedForm(labels, kept[q])]
    IN  SelectSeq(emitted, LAMBDA l : ~Excluded(sink, l))

\* C9 as stated: with or without GlobalLabels, no line without "{" is written
\* to a sink.
NoMalformedForwarded ==
    \A f \in DOMAIN sinkDir :
        \A q \in 1..Len(Lines(sinkDir[f])) : HasBrace(Lines(sinkDir[f])[q])

\* C9, amended: with GlobalLabels no line without "{" is written to a sink;
\* without GlobalLabels such a line is forwarded as it is; in both cases the
\* other lines of the file are forwarded, and the files of an iteration that
\* committed are deleted.
MalformedTolerance ==
    /\ labels # <<>> => NoMalformedForwarded
    /\ (pc = "rotate" /\ k = 1) =>
          \A n \in 1..Len(sinks) :
              Lines(sinkDir[TmpFile(sinks[n].name)]) = ExpectedPending(sinks[n])
    /\ (pc = "list" /\ hist.iters >= 1) =>
          \A n \in Range(files) : n \notin Range(sourceDir)

\* C9's case: with GlobalLabels, the file with one well-formed line and one
\* line without "{" was committed as one line and deleted
MalformedToleranceWitness ==
    /\ labels # <<>>
    /\ pc = "list"
    /\ files = <<"b">>
    /\ "b" \in hist.deleted
    /\ \E f \in DOMAIN sinkDir :
          f.kind = "metrics" /\ f.sink = "s1" /\ Len(Lines(sinkDir[f])) = 1

\* the number of places of s where g occurs
Occurrences(g, s) ==
    Cardinality({p \in 1..(Len(s) - Len(g) + 1) : SubSeq(s, p, p + Len(g) - 1) = g})

\* C10, amended: with GlobalLabels G a line "c{r" is emitted as "c{" G r when
\* r starts with "}" after leading whitespace, and as "c{" G "," r otherwise:
\* G is put in once, after the first "{", and c and r are unchanged; without
\* GlobalLabels the line is emitted unchanged.
InjectionForm ==
    Len(inj_out) = 1 =>
        IF labels = <<>> THEN inj_out[1] = <<inj_line>>
        ELSE HasBrace(inj_line) =>
                inj_out[1] = <<InjectedForm(labels, inj_line)>>

\* C10 as stated: moreover G occurs exactly once in every emitted line.
InjectionOnce ==
    /\ InjectionForm
    /\ (Len(inj_out) = 1 /\ labels # <<>> /\ inj_out[1] # <<>>) =>
          Occurrences(labels, inj_out[1][1]) = 1

\* C10's case: a line with an empty label-set after whitespace
InjectionFormWitness ==
    /\ labels = <<"e", "=", "p">>
    /\ inj_line = <<"e", "{", " ", "}">>
    /\ inj_out = << << <<"e", "{", "e", "=", "p", " ", "}">> >> >>

(***************************************************************************)
(* The exclusion filter on its own: every line up to MaxLineLen characters *)
(* is written to the pending files of the sinks.                           *)
(***************************************************************************)
\* the characters of these lines: one the selector of s2 matches, one it
\* does not match, and the blank
FilterAlphabet == {"7", "a", " "}

FilterLines == UNION {[1..n -> FilterAlphabet] : n \in 0..MaxLineLen}

\* what the pending files hold before the line is written
Prior == <<"a", "\n">>

InitFilter ==
    /\ labels = <<>>
    /\ parameters = [batch_count |-> 0, batch_size |-> 100]
    /\ sourceDir = <<>>
    /\ sinkDir = [f \in {TmpFile(s) : s \in SinkNames} |-> Prior]
    /\ now = 0
    /\ pc = "write"
    /\ entries = <<>>
    /\ i = 0
    /\ files = <<>>
    /\ inj_line \in FilterLines
    /\ metrics = <<inj_line>>
    /\ batch_size = 0
    /\ k = 1
    /\ rot_now = 0
    /\ result = None
    /\ hist = HistInit(<<>>)
    /\ inj_out = <<>>
    /\ IdleSched

NextFilter == WriteLine

SpecFilter == InitFilter /\ [][NextFilter]_vars

\* the positions of the line where a whitespace-delimited token starts
TokenStarts(line) ==
    {p \in 1..Len(line) : line[p] # " " /\ (p = 1 \/ line[p - 1] = " ")}

\* the sink has a selector, the line has a second token, and the selector
\* matches it
SelectorMatches(sink, line) ==
    /\ sink.selector # None
    /\ \E p \in TokenStarts(line) :
          /\ Cardinality({q \in TokenStarts(line) : q < p}) = 1
          /\ \E q \in p..Len(line) :
                /\ line[q] = sink.selector
                /\ \A r \in p..q : line[r] # " "

\* C11: a non-empty line is appended, unmodified and followed by a newline,
\* to the pending file of a sink if and only if the sink has no selector, or
\* the line has no second token, or the selector does not match the second
\* token; what one sink receives does not depend on the other sinks.
ExclusionFilter ==
    (pc = "write" /\ k = 2) =>
        \A n \in 1..Len(sinks) :
            sinkDir[TmpFile(sinks[n].name)] =
                IF inj_line # <<>> /\ ~SelectorMatches(sinks[n], inj_line)
                THEN Prior \o inj_line \o <<"\n">>
                ELSE Prior

\* C11's case: a line whose second token the selector of s2 matches was
\* written to s1 and not to s2
ExclusionFilterWitness ==
    /\ pc = "write"
    /\ k = 2
    /\ inj_line = <<"a", " ", "a", "7">>
    /\ sinkDir[TmpFile("s1")] = Prior \o inj_line \o <<"\n">>
    /\ sinkDir[TmpFile("s2")] = Prior

(***************************************************************************)
(* C12.                                                                    *)
(***************************************************************************)
\* source_dir held no .metrics file when the current cycle started, and the
\* source writer has added none since
NoMetricsInCycle ==
    /\ \A n \in Range(hist.cycleDir) : Extension(n) # "metrics"
    /\ ~hist.added

\* C12: in a cycle that starts with no .metrics file in source_dir, no step
\* of route changes source_dir or sink_dir (no file is deleted, no pending
\* file created or truncated, no committed file created), route only lists
\* and scans, and it returns Ok unless the listing itself failed.
NoOpCycle ==
    [][ ( /\ pc \notin {"start", "sleep"}
          /\ NoMetricsInCycle
          /\ routerVars' # routerVars )
        => /\ sourceDir' = sourceDir
           /\ sinkDir' = sinkDir
           /\ pc' \in {"scan", "selected", "sleep"}
           /\ (pc' = "sleep" =>
                  \/ result' = "ok"
                  \/ hist'.err \in {"read_dir", "entry"}) ]_vars

\* C12's case: a cycle over a directory that holds only a file of another
\* extension has returned Ok and left both directories as they were
NoOpCycleWitness ==
    /\ pc = "sleep"
    /\ result = "ok"
    /\ hist.cycleDir = <<"x">>
    /\ NoMetricsInCycle
    /\ hist.iters = 0
    /\ sourceDir = <<"x">>
    /\ sinkDir = <<>>

(***************************************************************************)
(* C13.                                                                    *)
(***************************************************************************)
\* the .metrics files among the first n entries of the listing that can be
\* read, in listing order
ReadableMetrics(n) ==
    SelectSeq(SubSeq(entries, 1, n),
              LAMBDA e : Extension(e) = "metrics" /\ Readable(e))

\* C13: a .metrics file that cannot be read does not abort the iteration;
\* it is not part of the batch and the router never deletes it, so it stays
\* in source_dir; the readable files scanned with it are selected, and an
\* iteration that completes has committed every sink and deleted them.
UnreadableSkipped ==
    /\ \A n \in Range(files) : Readable(n)
    /\ \A n \in hist.deleted : Readable(n)
    /\ \A n \in hist.used : ~Readable(n) => n \in Range(sourceDir)
    /\ hist.err # "read"
    /\ pc \in {"selected", "create", "write", "rotate", "delete"} =>
          files = ReadableMetrics(i)
    /\ (pc = "list" /\ hist.iters > 0) =>
          /\ hist.renamed = SinkNames
          /\ hist.iterDeleted = Range(files)

\* C13's case: an iteration met the unreadable file first and the readable
\* one after it; it committed and deleted the readable one and the unreadable
\* one is still there
UnreadableSkippedWitness ==
    /\ pc = "list"
    /\ entries = <<"u", "a">>
    /\ files = <<"a">>
    /\ hist.iterDeleted = {"a"}
    /\ hist.renamed = SinkNames
    /\ sourceDir = <<"u">>

(***************************************************************************)
(* C14.                                                                    *)
(***************************************************************************)
\* the lines followed by a newline each, as the bytes of a file
RECURSIVE Flat(_)
Flat(ls) ==
    IF ls = <<>> THEN <<>> ELSE Head(ls) \o <<"\n">> \o Flat(Tail(ls))

\* the batch of the iteration as the sink receives it: the relabelled lines
\* of the selected files, in listing order then line order, without the empty
\* lines and the lines the sink excludes
BatchFor(sink) ==
    SelectSeq(RelabelAll(labels, RawLines(files)),
              LAMBDA l : l # <<>> /\ ~SelectorMatches(sink, l))

\* C14: the step that renames the first pending file of an iteration is
\* taken when every line of the batch has been written and the files flushed;
\* at that step every sink's pending file holds exactly the batch for that
\* sink, in order, and nothing of an earlier iteration; the committed file
\* the step creates holds the same.
ConsistentCommit ==
    [][ (pc = "rotate" /\ k = 1 /\ hist'.renamed # hist.renamed)
        => /\ metrics = RelabelAll(labels, RawLines(files))
           /\ \A n \in 1..Len(sinks) :
                 /\ sinkDir[TmpFile(sinks[n].name)] = Flat(BatchFor(sinks[n]))
                 /\ hist.pending[sinks[n].name] = Flat(BatchFor(sinks[n]))
           /\ sinkDir'[CommittedFile(sinks[1].name, rot_now)]
                 = Flat(BatchFor(sinks[1]))
           /\ \A n \in 2..Len(sinks) :
                 sinkDir'[TmpFile(sinks[n].name)] = Flat(BatchFor(sinks[n])) ]_vars

\* C14's case: an earlier cycle failed while writing its second line and left
\* its pending files behind; the retry has renamed its first pending file,
\* which holds the batch once
ConsistentCommitWitness ==
    /\ pc = "rotate"
    /\ k = 2
    /\ hist.err = "write"
    /\ hist.errAt >= 2
    /\ hist.cycles = 2
    /\ Len(BatchFor(sinks[1])) >= 2
    /\ CommittedFile(sinks[1].name, rot_now) \in DOMAIN sinkDir
    /\ sinkDir[CommittedFile(sinks[1].name, rot_now)] = Flat(BatchFor(sinks[1]))

(***************************************************************************)
(* C19.                                                                    *)
(***************************************************************************)
\* C19: whatever the source writer adds and whenever it does, a path leaves
\* source_dir only in the delete loop of an iteration that listed it, read
\* it and holds its whole content in the batch; a file that is not in the
\* batch of the running iteration stays in source_dir.
DeletesOnlyRead ==
    [][ /\ \A n \in Range(sourceDir) \ Range(sourceDir') :
              /\ pc = "delete"
              /\ n \in Range(files)
              /\ n \in Range(entries)
              /\ Readable(n)
              /\ metrics = RelabelAll(labels, RawLines(files))
        /\ \A n \in Range(sourceDir) :
              n \notin Range(files) => n \in Range(sourceDir')
        /\ \A n \in hist'.used \ hist'.deleted : n \in Range(sourceDir') ]_vars

\* C19's case: the source writer added a .metrics file after the iteration
\* had listed source_dir; the iteration deleted its batch and the new file
\* is still there
DeletesOnlyReadWitness ==
    /\ pc = "list"
    /\ hist.iterDeleted # {}
    /\ hist.added
    /\ \E n \in Range(sourceDir) :
          /\ Extension(n) = "metrics"
          /\ Readable(n)
          /\ n \notin Range(entries)

(***************************************************************************)
(* The router loop (router.rs:24-56) with route taken as a whole, the main *)
(* thread (main.rs:99-155), the signal handler and the other workers.      *)
(* Position of the router thread: "init" before the labels are flattened,  *)
(* "start" at the top of the loop, "route" inside route, "measure" after   *)
(* route returned, "sleep" at the head of the sleep loop, "poll" after a   *)
(* sleep, "returned" after router() returned.                              *)
(***************************************************************************)
\* router.rs:21
REST_TIME == 10

\* what the steps of the router loop leave alone
routeLocals == <<sourceDir, sinkDir, now, entries, i, files, metrics,
                 batch_size, k, rot_now, hist, injVars>>

Max(a, b) == IF a >= b THEN a ELSE b

\* SleepTime without the floor of REST_TIME
SleepTimeNoRest(scan_period, el) ==
    IF el > scan_period THEN 0 ELSE scan_period - el

\* lines 44-48
SleepTime(scan_period, el) ==
    IF el > scan_period THEN REST_TIME
    ELSE Max(scan_period - el, REST_TIME)

\* lines 43-48: the sleep time is computed from the time the cycle took
Measure ==
    /\ pc = "measure"
    /\ sleep_time' = SleepTime(parameters.scan_period, elapsed)
    /\ rounds' = 0
    /\ slept' = 0
    /\ pc' = "sleep"
    /\ UNCHANGED <<configVars, routeLocals, result, label_map, sigint, SIGINT,
                   main_pc, joined, done, elapsed, backlog, late>>

\* lines 49-50: the loop has an iteration left, the thread sleeps REST_TIME
SleepIncrement ==
    /\ pc = "sleep"
    /\ rounds < sleep_time \div REST_TIME
    /\ slept' = slept + REST_TIME
    /\ pc' = "poll"
    /\ UNCHANGED <<configVars, routeLocals, result, label_map, sigint, SIGINT,
                   main_pc, joined, done, elapsed, sleep_time, rounds, backlog,
                   late>>

\* Poll that does not look at the flag
PollNoReturn ==
    /\ pc = "poll"
    /\ pc' = "sleep"
    /\ rounds' = rounds + 1
    /\ UNCHANGED <<configVars, routeLocals, result, label_map, sigint, SIGINT,
                   main_pc, joined, done, elapsed, sleep_time, slept, backlog,
                   late>>

\* lines 51-53: the flag is read; router() returns when it is set
Poll ==
    /\ pc = "poll"
    /\ IF sigint
       THEN pc' = "returned" /\ UNCHANGED rounds
       ELSE pc' = "sleep" /\ rounds' = rounds + 1
    /\ UNCHANGED <<configVars, routeLocals, result, label_map, sigint, SIGINT,
                   main_pc, joined, done, elapsed, sleep_time, slept, backlog,
                   late>>

\* lines 49 and 55: the sleep loop is over, the router loops
LoopEnd ==
    /\ pc = "sleep"
    /\ rounds >= sleep_time \div REST_TIME
    /\ pc' = "start"
    /\ UNCHANGED <<configVars, routeLocals, result, schedVars>>

(***************************************************************************)
(* The sleep of the router on its own, for every scan period up to         *)
(* MaxPeriod and every cycle time up to MaxElapsed, the flag unset.        *)
(***************************************************************************)
MaxPeriod == 35
MaxElapsed == 40

InitSleep ==
    /\ labels = <<>>
    /\ \E p \in 0..MaxPeriod :
          parameters = [batch_count |-> 0, batch_size |-> 100, scan_period |-> p]
    /\ sourceDir = <<>>
    /\ sinkDir = <<>>
    /\ now = 0
    /\ pc = "measure"
    /\ entries = <<>>
    /\ i = 0
    /\ files = <<>>
    /\ metrics = <<>>
    /\ batch_size = 0
    /\ k = 1
    /\ rot_now = 0
    /\ result = "ok"
    /\ hist = HistInit(<<>>)
    /\ inj_line = <<>>
    /\ inj_out = <<>>
    /\ label_map = <<>>
    /\ sigint = FALSE
    /\ SIGINT = FALSE
    /\ main_pc = "wait"
    /\ joined = 0
    /\ done = {}
    /\ elapsed \in 0..MaxElapsed
    /\ sleep_time = 0
    /\ rounds = 0
    /\ slept = 0
    /\ backlog = 0
    /\ late = 0

NextSleep == Measure \/ SleepIncrement \/ Poll \/ LoopEnd

SpecSleep == InitSleep /\ [][NextSleep]_vars

\* the sleep of the scheduler as the specification states it
StatedSleep == Max(parameters.scan_period - elapsed, REST_TIME)

\* C17 as stated: after a cycle that took elapsed milliseconds the router
\* has slept max(scan_period - elapsed, REST_TIME) milliseconds in all when
\* it starts the next cycle.
SleepTotalExact ==
    pc = "start" => slept = StatedSleep

\* C17, amended: the router sleeps in increments of REST_TIME and has slept
\* the largest multiple of REST_TIME that is not above
\* max(scan_period - elapsed, REST_TIME) when it starts the next cycle:
\* never less than REST_TIME, and the stated time when that is a multiple
\* of REST_TIME.
SleepTotalFloor ==
    /\ pc \in {"sleep", "poll", "start"} =>
          /\ sleep_time = StatedSleep
          /\ slept = REST_TIME * (rounds + IF pc = "poll" THEN 1 ELSE 0)
          /\ slept <= StatedSleep
    /\ pc = "start" =>
          /\ slept = REST_TIME * (StatedSleep \div REST_TIME)
          /\ slept >= REST_TIME
          /\ StatedSleep - slept < REST_TIME
          /\ (StatedSleep % REST_TIME = 0 => slept = StatedSleep)

\* C17's case: with a scan period of 25 ms and a cycle of 0 ms the router
\* slept twice and starts the next cycle after 20 ms
SleepTotalFloorWitness ==
    /\ pc = "start"
    /\ parameters.scan_period = 25
    /\ elapsed = 0
    /\ rounds = 2
    /\ slept = 20

(***************************************************************************)
(* The flattening of the labels (router.rs:29-33) on its own, for every    *)
(* label mapping of up to MaxLabels entries, followed by the injection of  *)
(* the flattened string into lines.                                        *)
(***************************************************************************)
MaxLabels == 2

LabelKeys == {"e", "q", "w"}
LabelValues == {"p", "r"}

\* the mappings: <<key, value>> pairs in insertion order, no key twice
LabelMaps ==
    {m \in UNION {[1..l -> LabelKeys \X LabelValues] : l \in 0..MaxLabels} :
        \A a, b \in 1..Len(m) : a # b => m[a][1] # m[b][1]}

\* HashMap::iter yields every entry once, in an order of its own
IterOrders(m) ==
    {[q \in 1..Len(m) |-> m[f[q]]] :
        f \in {g \in [1..Len(m) -> 1..Len(m)] :
                  \A a, b \in 1..Len(m) : a # b => g[a] # g[b]}}

\* the fold of lines 29-33 with the separator put before every entry
RECURSIVE FoldSepAlways(_)
FoldSepAlways(items) ==
    IF items = <<>> THEN <<>>
    ELSE LET acc == FoldSepAlways(SubSeq(items, 1, Len(items) - 1))
             kv == items[Len(items)]
         IN  acc \o <<",">> \o <<kv[1]>> \o <<"=">> \o <<kv[2]>>

\* lines 29-33: the fold over the entries as iter yields them
RECURSIVE Fold(_)
Fold(items) ==
    IF items = <<>> THEN <<>>
    ELSE LET acc == Fold(SubSeq(items, 1, Len(items) - 1))
             kv == items[Len(items)]
             sep == IF acc = <<>> THEN <<>> ELSE <<",">>
         IN  acc \o sep \o <<kv[1]>> \o <<"=">> \o <<kv[2]>>

\* lines 29-33: the labels are flattened, once, before the loop
Flatten ==
    /\ pc = "init"
    /\ \E items \in IterOrders(label_map) : labels' = Fold(items)
    /\ pc' = "start"
    /\ UNCHANGED <<parameters, routeLocals, result, schedVars>>

SampleLines == {<<"f", "{", "}">>, <<"g", "{", "b", "}">>}

\* route, lines 92-124, for one line of some cycle
RelabelLine ==
    /\ pc = "start"
    /\ \E line \in SampleLines :
          /\ inj_line' = line
          /\ inj_out' = <<Relabel(labels, line)>>
    /\ UNCHANGED <<configVars, sourceDir, sinkDir, now, routerVars, hist,
                   schedVars>>

InitLabels ==
    /\ labels = <<>>
    /\ parameters = [batch_count |-> 0, batch_size |-> 100]
    /\ sourceDir = <<>>
    /\ sinkDir = <<>>
    /\ now = 0
    /\ pc = "init"
    /\ entries = <<>>
    /\ i = 0
    /\ files = <<>>
    /\ metrics = <<>>
    /\ batch_size = 0
    /\ k = 1
    /\ rot_now = 0
    /\ result = None
    /\ hist = HistInit(<<>>)
    /\ inj_line = <<>>
    /\ inj_out = <<>>
    /\ label_map \in LabelMaps
    /\ sigint = FALSE
    /\ SIGINT = FALSE
    /\ main_pc = "wait"
    /\ joined = 0
    /\ done = {}
    /\ elapsed = 0
    /\ sleep_time = 0
    /\ rounds = 0
    /\ slept = 0
    /\ backlog = 0
    /\ late = 0

NextLabels == Flatten \/ RelabelLine

SpecLabels == InitLabels /\ [][NextLabels]_vars

\* the pieces of a string between its commas, empty pieces included
RECURSIVE SplitComma(_)
SplitComma(t) ==
    LET p == FirstIndex(t, ",")
    IN  IF p = 0 THEN <<t>>
        ELSE <<SubSeq(t, 1, p - 1)>> \o SplitComma(SubSeq(t, p + 1, Len(t)))

\* the flattened string lists every label of the mapping once, as key=value,
\* separated by single commas, in some order
ListsEveryLabelOnce ==
    IF label_map = <<>> THEN labels = <<>>
    ELSE LET pieces == SplitComma(labels)
         IN  /\ Len(pieces) = Len(label_map)
             /\ \A a \in 1..Len(label_map) :
                   Cardinality({q \in 1..Len(pieces) :
                       pieces[q] = <<label_map[a][1], "=", label_map[a][2]>>}) = 1
             /\ labels[1] # ","
             /\ labels[Len(labels)] # ","

\* C18 as stated: the flattened string lists the labels in the insertion
\* order of the configuration.
FlattenInsertionOrder ==
    pc # "init" => labels = Fold(label_map)

\* C18, amended: the labels are flattened once, before the first cycle, into
\* one key=value,... string without leading or trailing comma that lists
\* every label once, in the order HashMap::iter yields them (which need not
\* be the insertion order); the string never changes afterwards and is what
\* every relabelled line carries after its "{".
FlattenedOnce ==
    [][ /\ pc' # "init" => ListsEveryLabelOnce'
        /\ pc # "init" => labels' = labels
        /\ (inj_out' # inj_out /\ labels' # <<>>) =>
              LET out == inj_out'[1][1]
                  p == FirstIndex(out, "{")
              IN  /\ p > 0
                  /\ SubSeq(out, p + 1, p + Len(labels')) = labels' ]_vars

\* C18's case: two labels were flattened in the order opposite to their
\* insertion and a line carries that string
FlattenedOnceWitness ==
    /\ pc = "start"
    /\ label_map = << <<"e", "p">>, <<"q", "r">> >>
    /\ labels = <<"q", "=", "r", ",", "e", "=", "p">>
    /\ inj_line = <<"g", "{", "b", "}">>
    /\ inj_out = << << <<"g", "{", "q", "=", "r", ",", "e", "=", "p", ",",
                          "b", "}">> >> >>

(***************************************************************************)
(* The router loop with the main thread, the signal handler and the other  *)
(* workers.  A call of route is a sequence of iterations that each delete  *)
(* at least one file of the backlog, ended by a return of Ok or of an      *)
(* error; no file arrives.                                                 *)
(***************************************************************************)
MaxBacklog == 2

\* the scan period and the times a cycle can take, in milliseconds
SchedPeriod == 25
ElapsedChoices == {0, 22}

\* main.rs:100-133: the handles, in the order they are pushed
handles == <<"source", "router", "sink">>

\* router(), line 38: route is called
CallRoute ==
    /\ pc = "start"
    /\ pc' = "route"
    /\ late' = IF sigint /\ late < 2 THEN late + 1 ELSE late
    /\ UNCHANGED <<configVars, routeLocals, result, label_map, sigint, SIGINT,
                   main_pc, joined, done, elapsed, sleep_time, rounds, slept,
                   backlog>>

\* route, lines 64-186: an iteration selects files, commits them and deletes
\* them
RouteIteration ==
    /\ pc = "route"
    /\ backlog > 0
    /\ \E d \in 1..backlog : backlog' = backlog - d
    /\ UNCHANGED <<configVars, routeLocals, pc, result, label_map, sigint,
                   SIGINT, main_pc, joined, done, elapsed, sleep_time, rounds,
                   slept, late>>

\* the error of route ends the router loop
RouteErrReturns ==
    /\ pc = "route"
    /\ pc' = "returned"
    /\ result' = "err"
    /\ \E e \in ElapsedChoices : elapsed' = e
    /\ UNCHANGED <<configVars, routeLocals, label_map, sigint, SIGINT, main_pc,
                   joined, done, sleep_time, rounds, slept, backlog, late>>

\* route, lines 131-133 and 188, and router(), line 40: an iteration selects
\* nothing and route returns Ok
RouteOk ==
    /\ pc = "route"
    /\ pc' = "measure"
    /\ result' = "ok"
    /\ \E e \in ElapsedChoices : elapsed' = e
    /\ UNCHANGED <<configVars, routeLocals, label_map, sigint, SIGINT, main_pc,
                   joined, done, sleep_time, rounds, slept, backlog, late>>

\* route, the try! of lines 65-184, and router(), line 39: route returns an
\* error, which is logged
RouteErr ==
    /\ pc = "route"
    /\ pc' = "measure"
    /\ result' = "err"
    /\ \E e \in ElapsedChoices : elapsed' = e
    /\ UNCHANGED <<configVars, routeLocals, label_map, sigint, SIGINT, main_pc,
                   joined, done, sleep_time, rounds, slept, backlog, late>>

RouterThread ==
    \/ Flatten \/ CallRoute \/ RouteIteration \/ RouteOk \/ RouteErr
    \/ Measure \/ SleepIncrement \/ Poll \/ LoopEnd

\* main.rs:38-42: the signal handler
HandleSigint ==
    /\ ~SIGINT
    /\ SIGINT' = TRUE
    /\ UNCHANGED <<configVars, routeLocals, pc, result, label_map, sigint,
                   main_pc, joined, done, elapsed, sleep_time, rounds, slept,
                   backlog, late>>

\* main.rs:137-149: an iteration of the wait loop that finds SIGINT or the
\* flag set
MainWait ==
    /\ main_pc = "wait"
    /\ SIGINT \/ sigint
    /\ sigint' = (sigint \/ SIGINT)
    /\ main_pc' = "join"
    /\ UNCHANGED <<configVars, routeLocals, pc, result, label_map, SIGINT,
                   joined, done, elapsed, sleep_time, rounds, slept, backlog,
                   late>>

\* the thread of the handle has returned
Returned(h) == IF h = "router" THEN pc = "returned" ELSE h \in done

\* MainJoin that does not wait for the thread
MainJoinNoWait ==
    /\ main_pc = "join"
    /\ joined < Len(handles)
    /\ joined' = joined + 1
    /\ main_pc' = IF joined + 1 = Len(handles) THEN "halted" ELSE main_pc
    /\ UNCHANGED <<configVars, routeLocals, pc, result, label_map, sigint,
                   SIGINT, done, elapsed, sleep_time, rounds, slept, backlog,
                   late>>

\* main.rs:152-155: the next handle is joined; after the last, "halted"
MainJoin ==
    /\ main_pc = "join"
    /\ joined < Len(handles)
    /\ Returned(handles[joined + 1])
    /\ joined' = joined + 1
    /\ main_pc' = IF joined + 1 = Len(handles) THEN "halted" ELSE main_pc
    /\ UNCHANGED <<configVars, routeLocals, pc, result, label_map, sigint,
                   SIGINT, done, elapsed, sleep_time, rounds, slept, backlog,
                   late>>

MainThread == MainWait \/ MainJoin

\* a source or sink worker polls the flag in its sleep loop and returns
WorkerReturns(w) ==
    /\ w \notin done
    /\ sigint
    /\ done' = done \cup {w}
    /\ UNCHANGED <<configVars, routeLocals, pc, result, label_map, sigint,
                   SIGINT, main_pc, joined, elapsed, sleep_time, rounds, slept,
                   backlog, late>>

Workers == {"source", "sink"}

InitSched ==
    /\ labels = <<>>
    /\ parameters = [batch_count |-> 0, batch_size |-> 100,
                     scan_period |-> SchedPeriod]
    /\ sourceDir = <<>>
    /\ sinkDir = <<>>
    /\ now = 0
    /\ pc = "init"
    /\ entries = <<>>
    /\ i = 0
    /\ files = <<>>
    /\ metrics = <<>>
    /\ batch_size = 0
    /\ k = 1
    /\ rot_now = 0
    /\ result = None
    /\ hist = HistInit(<<>>)
    /\ inj_line = <<>>
    /\ inj_out = <<>>
    /\ label_map = <<>>
    /\ sigint = FALSE
    /\ SIGINT = FALSE
    /\ main_pc = "wait"
    /\ joined = 0
    /\ done = {}
    /\ elapsed = 0
    /\ sleep_time = 0
    /\ rounds = 0
    /\ slept = 0
    /\ backlog \in 0..MaxBacklog
    /\ late = 0

NextSched ==
    \/ RouterThread
    \/ MainThread
    \/ HandleSigint
    \/ \E w \in Workers : WorkerReturns(w)

SpecSched == InitSched /\ [][NextSched]_vars

\* every thread that can take a step eventually takes one; the signal is
\* under no obligation to arrive
FairSched ==
    /\ SpecSched
    /\ WF_vars(RouterThread)
    /\ WF_vars(MainThread)
    /\ \A w \in Workers : WF_vars(WorkerReturns(w))

(***************************************************************************)
(* C15.                                                                    *)
(***************************************************************************)
\* C15: route returning an error does not end the router loop: router()
\* returns only from the poll of the sleep loop, with the flag set, and a
\* call of route ends only by the router going on to its sleep; while the
\* flag is unset, every cycle that has returned, with Ok or with an error,
\* is followed by another call of route.
SchedulerResilience ==
    /\ [][ /\ (pc' = "returned" /\ pc # "returned") => (pc = "poll" /\ sigint)
           /\ (pc = "route" /\ pc' # "route") => pc' = "measure" ]_vars
    /\ (pc = "measure") ~> (pc = "route" \/ sigint)
    /\ (pc = "measure" /\ result = "err") ~> (pc = "route" \/ sigint)

\* C15's case: a cycle returned an error, the router slept, the flag is
\* unset and route is running again
SchedulerResilienceWitness ==
    /\ pc = "route"
    /\ result = "err"
    /\ rounds >= 1
    /\ ~sigint
    /\ ~SIGINT

(***************************************************************************)
(* C16.                                                                    *)
(***************************************************************************)
\* C16 as stated: once the flag is set, the router starts no further routing
\* cycle.
NoCycleAfterFlag ==
    [][ (sigint /\ result # None) => ~(pc = "start" /\ pc' = "route") ]_vars

\* C16, amended: the router reads the flag only in its sleep loop, after
\* every sleep increment and so at least once between two cycles; a call of
\* route is never cut short; the first poll that finds the flag set makes
\* router() return; the flag being set after the last poll of a sleep loop,
\* the router still starts one cycle, and never a second.
CancellationPoints ==
    [][ /\ (pc' = "returned" /\ pc # "returned") => (pc = "poll" /\ sigint)
        /\ (pc = "sleep" /\ pc' # pc) =>
              \/ pc' = "poll" /\ slept' = slept + REST_TIME
              \/ pc' = "start" /\ rounds >= 1
        /\ (pc = "poll" /\ pc' # pc) =>
              IF sigint THEN pc' = "returned" ELSE pc' = "sleep"
        /\ (pc = "route" /\ pc' # pc) => pc' = "measure"
        /\ (pc = "start" /\ pc' # pc) => pc' = "route"
        /\ late' <= 1 ]_vars

\* C16's case: a cycle has returned and the router has polled; the flag was
\* set after the last poll of the sleep loop and route is running once more
CancellationPointsWitness ==
    /\ pc = "route"
    /\ result # None
    /\ rounds >= 1
    /\ sigint
    /\ late = 1

(***************************************************************************)
(* C20.                                                                    *)
(***************************************************************************)
\* C20: the flag, once set, stays set; main leaves its wait loop only with
\* the flag set and is halted only when the source worker, the router and
\* the sink worker have returned; once the signal has arrived, a cycle that
\* is running comes to its end, the router returns and main is halted.
GracefulShutdown ==
    /\ [][sigint => sigint']_vars
    /\ [](main_pc # "wait" => sigint)
    /\ [](main_pc = "halted" =>
              /\ pc = "returned"
              /\ done = Workers
              /\ joined = Len(handles))
    /\ (SIGINT /\ pc = "route") ~> (pc = "measure")
    /\ SIGINT ~> (pc = "returned")
    /\ SIGINT ~> (main_pc = "halted")

\* C20's case: the signal arrived, the router finished a cycle that deleted
\* the backlog and returned, and main is halted
GracefulShutdownWitness ==
    /\ main_pc = "halted"
    /\ SIGINT
    /\ pc = "returned"
    /\ result = "ok"
    /\ backlog = 0
    /\ late = 1

====
